---- MODULE Spec2Model ----
(***************************************************************************)
(* A model of adafruit_json_stream: the chunk cursor (_IterToStream.read), *)
(* the scanner (fast_forward), the value reader (next_value), the lazy     *)
(* containers (TransientList, TransientObject) and the materializer        *)
(* (as_object), all driven against one shared cursor.                      *)
(*                                                                         *)
(* A byte is a one-character string; a document is a sequence of bytes.    *)
(* A plain (decoded) value is a tagged pair:                               *)
(*   <<"num", digits>>  <<"str", chars>>  <<"null", <<>>>>                 *)
(*   <<"list", <<v1, ..., vn>>>>  <<"obj", << <<key, v>>, ... >>>>         *)
(***************************************************************************)
EXTENDS Integers, Sequences, FiniteSets, TLC

QUOTE == "\""
BSLASH == "\\"
EOF == "EOF"
NoChar == "None"

Digits == {"0", "1", "2", "3", "4", "5", "6", "7", "8", "9"}

PyNone == <<"null", <<>>>>

(***************************************************************************)
(* json.loads: the whole-document decoder of the standard library, which   *)
(* the code calls on scalar tokens and on captured container text.         *)
(***************************************************************************)
DecodeFail == [ok |-> FALSE, v |-> PyNone, e |-> 0]

RECURSIVE SkipWs(_, _)
SkipWs(s, p) ==
    IF p <= Len(s) /\ s[p] = " " THEN SkipWs(s, p + 1) ELSE p

RECURSIVE ScanDigits(_, _)
ScanDigits(s, p) ==
    IF p <= Len(s) /\ s[p] \in Digits THEN ScanDigits(s, p + 1) ELSE p

\* p is the position after the opening quote; escapes \" and \\ are decoded
RECURSIVE ParseString(_, _, _)
ParseString(s, p, acc) ==
    IF p > Len(s) THEN DecodeFail
    ELSE IF s[p] = QUOTE THEN [ok |-> TRUE, v |-> <<"str", acc>>, e |-> p + 1]
    ELSE IF s[p] = BSLASH
         THEN IF p + 1 <= Len(s) /\ s[p + 1] \in {QUOTE, BSLASH}
              THEN ParseString(s, p + 2, Append(acc, s[p + 1]))
              ELSE DecodeFail
    ELSE ParseString(s, p + 1, Append(acc, s[p]))

\* a repeated key keeps its first position and takes the last value (dict)
RECURSIVE DictSet(_, _, _, _)
DictSet(items, k, v, i) ==
    IF i > Len(items) THEN Append(items, <<k, v>>)
    ELSE IF items[i][1] = k THEN [items EXCEPT ![i] = <<k, v>>]
    ELSE DictSet(items, k, v, i + 1)

RECURSIVE ParseValue(_, _)
RECURSIVE ParseElems(_, _, _)
RECURSIVE ParseMembers(_, _, _)

ParseValue(s, p) ==
    LET q == SkipWs(s, p) IN
    IF q > Len(s) THEN DecodeFail
    ELSE IF s[q] = QUOTE THEN ParseString(s, q + 1, <<>>)
    ELSE IF s[q] \in Digits
         THEN LET e == ScanDigits(s, q) IN
              [ok |-> TRUE, v |-> <<"num", SubSeq(s, q, e - 1)>>, e |-> e]
    ELSE IF q + 3 <= Len(s) /\ SubSeq(s, q, q + 3) = <<"n", "u", "l", "l">>
         THEN [ok |-> TRUE, v |-> PyNone, e |-> q + 4]
    ELSE IF s[q] = "["
         THEN LET r == SkipWs(s, q + 1) IN
              IF r <= Len(s) /\ s[r] = "]"
              THEN [ok |-> TRUE, v |-> <<"list", <<>>>>, e |-> r + 1]
              ELSE ParseElems(s, q + 1, <<>>)
    ELSE IF s[q] = "{"
         THEN LET r == SkipWs(s, q + 1) IN
              IF r <= Len(s) /\ s[r] = "}"
              THEN [ok |-> TRUE, v |-> <<"obj", <<>>>>, e |-> r + 1]
              ELSE ParseMembers(s, q + 1, <<>>)
    ELSE DecodeFail

ParseElems(s, p, acc) ==
    LET x == ParseValue(s, p) IN
    IF ~x.ok THEN DecodeFail
    ELSE LET q == SkipWs(s, x.e) IN
         IF q > Len(s) THEN DecodeFail
         ELSE IF s[q] = "," THEN ParseElems(s, q + 1, Append(acc, x.v))
         ELSE IF s[q] = "]"
              THEN [ok |-> TRUE, v |-> <<"list", Append(acc, x.v)>>, e |-> q + 1]
         ELSE DecodeFail

ParseMembers(s, p, acc) ==
    LET q == SkipWs(s, p) IN
    IF q > Len(s) \/ s[q] # QUOTE THEN DecodeFail
    ELSE LET k == ParseString(s, q + 1, <<>>) IN
         IF ~k.ok THEN DecodeFail
         ELSE LET c == SkipWs(s, k.e) IN
              IF c > Len(s) \/ s[c] # ":" THEN DecodeFail
              ELSE LET x == ParseValue(s, c + 1) IN
                   IF ~x.ok THEN DecodeFail
                   ELSE LET r == SkipWs(s, x.e)
                            items == DictSet(acc, k.v[2], x.v, 1) IN
                        IF r > Len(s) THEN DecodeFail
                        ELSE IF s[r] = "," THEN ParseMembers(s, r + 1, items)
                        ELSE IF s[r] = "}"
                             THEN [ok |-> TRUE, v |-> <<"obj", items>>, e |-> r + 1]
                        ELSE DecodeFail

\* the decoded value of the whole text, or a decode error (ok = FALSE)
JsonLoads(s) ==
    LET whole(x) == IF x.ok /\ SkipWs(s, x.e) > Len(s) THEN x ELSE DecodeFail
    IN whole(ParseValue(s, 1))

(***************************************************************************)
(* _IterToStream: the chunk cursor.  A stream is a record                  *)
(*   [data_iter: the chunks not yet pulled, chunk: the current chunk,      *)
(*    i: the 0-based offset in chunk, last_char: the byte that stopped the *)
(*    latest next_value (NoChar before the first stop)],                   *)
(* plus starved, which is not a field of the code: it records that read()  *)
(* was asked for a byte after the source was spent (raised EOFError).      *)
(***************************************************************************)
NewStream(chunks) ==
    [data_iter |-> chunks, chunk |-> <<>>, i |-> 0, last_char |-> NoChar,
     starved |-> FALSE]

\* read() refilling one byte early: the last byte of every chunk is dropped
Read_EarlyRefill(st) ==
    IF st.i >= Len(st.chunk) - 1
    THEN IF st.data_iter = <<>>
         THEN [st |-> [st EXCEPT !.starved = TRUE], c |-> EOF]
         ELSE LET ch == Head(st.data_iter) IN
              [st |-> [st EXCEPT !.data_iter = Tail(st.data_iter),
                                 !.chunk = ch, !.i = 1],
               c |-> ch[1]]
    ELSE [st |-> [st EXCEPT !.i = st.i + 1], c |-> st.chunk[st.i + 1]]

\* read(): the next byte, or EOF (EOFError) once the source is spent
Read(st) ==
    IF st.i >= Len(st.chunk)
    THEN IF st.data_iter = <<>>
         THEN [st |-> [st EXCEPT !.starved = TRUE], c |-> EOF]
         ELSE LET ch == Head(st.data_iter) IN
              [st |-> [st EXCEPT !.data_iter = Tail(st.data_iter),
                                 !.chunk = ch, !.i = 1],
               c |-> ch[1]]
    ELSE [st |-> [st EXCEPT !.i = st.i + 1], c |-> st.chunk[st.i + 1]]

\* the capture buffer grows by this many bytes at a time
BufferIncrement == 32
NUL == "NUL"

Zeros(n) == [k \in 1..n |-> NUL]

\* closer - 2: "]" is 93 and "[" is 91, "}" is 125 and "{" is 123
Opener(closer) == IF closer = "]" THEN "[" ELSE "{"

\* growing the buffer without storing the byte that made it grow
BufferPut_GrowOnly(buffer, count, char) ==
    IF count = Len(buffer)
    THEN buffer \o Zeros(BufferIncrement)
    ELSE [buffer EXCEPT ![count + 1] = char]

\* buffer[count] = char after growing the buffer when count = len(buffer)
BufferPut(buffer, count, char) ==
    LET grown == IF count = Len(buffer)
                 THEN buffer \o Zeros(BufferIncrement)
                 ELSE buffer
    IN [grown EXCEPT ![count + 1] = char]

(***************************************************************************)
(* fast_forward(closer, return_object).  The result is a record            *)
(*   [st, exc, flag, val]: exc is "" or the exception raised; flag is the  *)
(*   boolean returned in skip mode (TRUE: mismatched close); val is the    *)
(*   decoded value returned in capture mode ("bool" tagged when the        *)
(*   capture ended on a mismatched close and True was returned).           *)
(***************************************************************************)
\* buffer is <<>> for None: "if buffer" is false exactly then
RECURSIVE FFLoop(_, _, _, _)

\* the loop without the in-string test of lines 78-80: brackets inside a
\* string open, close and end the skip like brackets of the document
FFLoop_StringsNotInert(st, close_stack, count, buffer) ==
    LET decoded(d) ==
          IF d.ok
          THEN [st |-> st, exc |-> "", flag |-> FALSE, val |-> d.v]
          ELSE [st |-> st, exc |-> "JSONDecodeError", flag |-> FALSE, val |-> PyNone]
        turn(r, char, top, cnt) ==
          IF char = EOF
          THEN [st |-> r.st, exc |-> "EOFError", flag |-> FALSE, val |-> PyNone]
          ELSE
            LET buf == IF buffer # <<>> THEN BufferPut(buffer, cnt, char) ELSE buffer IN
            IF char = top
            THEN FFLoop(r.st, SubSeq(close_stack, 1, Len(close_stack) - 1), cnt, buf)
            ELSE IF char = QUOTE
            THEN FFLoop(r.st, Append(close_stack, QUOTE), cnt, buf)
            ELSE IF char \in {"}", "]"}
            THEN [st |-> r.st, exc |-> "", flag |-> TRUE, val |-> <<"bool", <<>>>>]
            ELSE IF char = "{"
            THEN FFLoop(r.st, Append(close_stack, "}"), cnt, buf)
            ELSE IF char = "["
            THEN FFLoop(r.st, Append(close_stack, "]"), cnt, buf)
            ELSE FFLoop(r.st, close_stack, cnt, buf)
        read(r) == turn(r, r.c, close_stack[Len(close_stack)], count + 1)
    IN
    IF close_stack = <<>>
    THEN IF buffer # <<>>
         THEN decoded(JsonLoads(SubSeq(buffer, 1, count + 1)))
         ELSE [st |-> st, exc |-> "", flag |-> FALSE, val |-> PyNone]
    ELSE read(Read(st))

FFLoop(st, close_stack, count, buffer) ==
    LET \* return json.loads(value_string)
        decoded(d) ==
          IF d.ok
          THEN [st |-> st, exc |-> "", flag |-> FALSE, val |-> d.v]
          ELSE [st |-> st, exc |-> "JSONDecodeError", flag |-> FALSE, val |-> PyNone]
        \* one turn of the while loop, r being the outcome of self.read()
        turn(r, char, top, cnt) ==
          IF char = EOF
          THEN [st |-> r.st, exc |-> "EOFError", flag |-> FALSE, val |-> PyNone]
          ELSE
            LET buf == IF buffer # <<>> THEN BufferPut(buffer, cnt, char) ELSE buffer IN
            IF char = top
            THEN FFLoop(r.st, SubSeq(close_stack, 1, Len(close_stack) - 1), cnt, buf)
            ELSE IF char = QUOTE
            THEN FFLoop(r.st, Append(close_stack, QUOTE), cnt, buf)
            ELSE IF top = QUOTE
            THEN FFLoop(r.st, close_stack, cnt, buf)
            ELSE IF char \in {"}", "]"}
            THEN [st |-> r.st, exc |-> "", flag |-> TRUE, val |-> <<"bool", <<>>>>]
            ELSE IF char = "{"
            THEN FFLoop(r.st, Append(close_stack, "}"), cnt, buf)
            ELSE IF char = "["
            THEN FFLoop(r.st, Append(close_stack, "]"), cnt, buf)
            ELSE FFLoop(r.st, close_stack, cnt, buf)
        read(r) == turn(r, r.c, close_stack[Len(close_stack)], count + 1)
    IN
    IF close_stack = <<>>
    THEN IF buffer # <<>>
         THEN decoded(JsonLoads(SubSeq(buffer, 1, count + 1)))
         ELSE [st |-> st, exc |-> "", flag |-> FALSE, val |-> PyNone]
    ELSE read(Read(st))

FastForward(st, closer, return_object) ==
    FFLoop(st, <<closer>>, 0,
           IF return_object
           THEN [Zeros(BufferIncrement) EXCEPT ![1] = Opener(closer)]
           ELSE <<>>)

(***************************************************************************)
(* next_value(endswith).  The result is [st, exc, ret]: ret is PyNone      *)
(* (nothing read, or the literal null), a decoded scalar, or               *)
(* <<"Transient", "list">> / <<"Transient", "object">> when an opening     *)
(* bracket was read.  exc "Hang": the loop never ends (end of data inside  *)
(* a string appends endswith to buf forever).                              *)
(***************************************************************************)
RECURSIVE NVLoop(_, _, _, _)
NVLoop(st, endswith, buf, in_string) ==
    LET \* return json.loads(value_string)
        decoded(s2, d) ==
          IF d.ok
          THEN [st |-> s2, exc |-> "", ret |-> d.v]
          ELSE [st |-> s2, exc |-> "JSONDecodeError", ret |-> PyNone]
        \* one turn of the while loop, r being the outcome of self.read()
        turn(r, char) ==
          IF ~in_string /\ (char = endswith \/ char \in {"]", "}"})
          THEN LET s2 == [r.st EXCEPT !.last_char = char] IN
               IF buf = <<>>
               THEN [st |-> s2, exc |-> "", ret |-> PyNone]
               ELSE decoded(s2, JsonLoads(buf))
          ELSE IF char = "{"
          THEN [st |-> r.st, exc |-> "", ret |-> <<"Transient", "object">>]
          ELSE IF char = "["
          THEN [st |-> r.st, exc |-> "", ret |-> <<"Transient", "list">>]
          ELSE IF r.c = EOF
          THEN [st |-> r.st, exc |-> IF endswith = NoChar THEN "TypeError" ELSE "Hang",
                ret |-> PyNone]
          ELSE NVLoop(r.st, endswith, Append(buf, char),
                      IF ~in_string THEN char = QUOTE ELSE char # QUOTE)
        read(r) == turn(r, IF r.c = EOF THEN endswith ELSE r.c)
    IN read(Read(st))

NextValue(st, endswith) == NVLoop(st, endswith, <<>>, FALSE)

IsTransient(ret) == ret[1] = "Transient"

(***************************************************************************)
(* Transient, TransientList, TransientObject.  The system is a record      *)
(*   [st: the shared stream, objs: the containers created so far].         *)
(* A container is referred to by its index in objs (0 is None); its fields *)
(* are those of Transient, plus three that record where it came from:      *)
(* start, the number of bytes that had been consumed when it was created   *)
(* (the offset of its opening bracket), parent, the container whose        *)
(* operation returned it (0 for load), and pkey, the key it was looked up  *)
(* by (NoKey for a list element).                                          *)
(* An operation yields [sys, kind, val]: kind is "value", "container"      *)
(* (val = <<"ref", id>>) or the name of the exception raised.              *)
(***************************************************************************)
VARIABLES doc, sys, alt, loaded, res, used, touched, yielded, ended, ff

vars == <<doc, sys, alt, loaded, res, used, touched, yielded, ended, ff>>

NoKey == <<"None">>

\* bytes still to be read from the stream, and bytes consumed so far
RECURSIVE TotalLen(_)
TotalLen(chunks) ==
    IF chunks = <<>> THEN 0 ELSE Len(Head(chunks)) + TotalLen(Tail(chunks))

Remaining(st) == (Len(st.chunk) - st.i) + TotalLen(st.data_iter)

Consumed(st) == Len(doc) - Remaining(st)

FinishChar(kind) == IF kind = "list" THEN "]" ELSE "}"

\* Transient.__init__ and the subclasses' __init__
NewTransient(kind, st, parent, key) ==
    [kind |-> kind, done |-> FALSE, has_read |-> FALSE, active_child |-> 0,
     active_child_key |-> NoKey,
     start |-> Consumed(st), parent |-> parent, pkey |-> key]

Out(s, kind, val) == [sys |-> s, kind |-> kind, val |-> val]

\* Transient.finish()
RECURSIVE Finish(_, _)
Finish(s, id) ==
    LET o == s.objs[id]
        \* after self.fast_forward(self.finish_char)
        forwarded(s1, f) ==
          IF f.exc # ""
          THEN Out([s1 EXCEPT !.st = f.st], f.exc, PyNone)
          ELSE Out([s1 EXCEPT !.st = f.st, !.objs[id].done = TRUE], "value", PyNone)
        \* self.active_child = None
        cleared(s1) == forwarded(s1, FastForward(s1.st, FinishChar(o.kind), FALSE))
        \* after self.active_child.finish()
        child_finished(a) ==
          IF a.kind # "value" THEN a
          ELSE cleared([a.sys EXCEPT !.objs[id].active_child = 0])
    IN
    IF o.done THEN Out(s, "value", PyNone)
    ELSE child_finished(IF o.active_child # 0
                        THEN Finish(s, o.active_child)
                        ELSE Out(s, "value", PyNone))

\* as_object() without the has_read test
AsObject_Unguarded(s, id) ==
    LET captured(f, s1) ==
          IF f.exc # "" THEN Out(s1, f.exc, PyNone) ELSE Out(s1, "value", f.val)
        forwarded(f) == captured(f, [s EXCEPT !.st = f.st, !.objs[id].done = TRUE])
    IN forwarded(FastForward(s.st, FinishChar(s.objs[id].kind), TRUE))

\* Transient.as_object()
AsObject(s, id) ==
    LET o == s.objs[id]
        \* self.done = True; return obj
        captured(f, s1) ==
          IF f.exc # "" THEN Out(s1, f.exc, PyNone) ELSE Out(s1, "value", f.val)
        \* after self.data.fast_forward(self.finish_char, return_object=True)
        forwarded(f) == captured(f, [s EXCEPT !.st = f.st, !.objs[id].done = TRUE])
    IN
    IF o.has_read THEN Out(s, "BufferError", PyNone)
    ELSE forwarded(FastForward(s.st, FinishChar(o.kind), TRUE))

\* the shared opening of __next__ and __getitem__: finish the active child
\* and fast-forward to the next comma
PassChild(s, id) ==
    LET o == s.objs[id]
        \* self.done = self.data.fast_forward(","); self.active_child = None
        forwarded(a, f) ==
          IF f.exc # ""
          THEN Out([a.sys EXCEPT !.st = f.st], f.exc, PyNone)
          ELSE Out([a.sys EXCEPT !.st = f.st,
                                 !.objs[id].done = f.flag,
                                 !.objs[id].active_child = 0,
                                 !.objs[id].active_child_key =
                                     IF o.kind = "object" THEN NoKey ELSE @],
                   "value", PyNone)
        \* after self.active_child.finish()
        child_finished(a) ==
          IF a.kind # "value" THEN a
          ELSE forwarded(a, FastForward(a.sys.st, ",", FALSE))
    IN
    IF o.active_child = 0 THEN Out(s, "value", PyNone)
    ELSE child_finished(Finish(s, o.active_child))

\* a container read by next_value is created and returned to the caller
ReturnTransient(s, id, kind, key) ==
    LET new == Len(s.objs) + 1
        s1 == [s EXCEPT !.objs = Append(@, NewTransient(kind, s.st, id, key))]
    IN Out([s1 EXCEPT !.objs[id].active_child = new,
                      !.objs[id].active_child_key = key],
           "container", <<"ref", new>>)

\* TransientList.__next__()
ListNext(s, id) ==
    LET \* after self.data.next_value(",")
        read(nv, s1, s2) ==
          IF nv.exc # "" THEN Out(s1, nv.exc, PyNone)
          ELSE IF nv.ret = PyNone
          THEN Out([s2 EXCEPT !.objs[id].done = TRUE], "StopIteration", PyNone)
          ELSE IF IsTransient(nv.ret)
          THEN ReturnTransient(s2, id, nv.ret[2], NoKey)
          ELSE Out(s2, "value", nv.ret)
        \* if self.data.last_char == ord("]"): self.done = True
        last(nv, s1) ==
          read(nv, s1, IF nv.st.last_char = "]"
                       THEN [s1 EXCEPT !.objs[id].done = TRUE] ELSE s1)
        value(p, nv) == last(nv, [p.sys EXCEPT !.st = nv.st])
        \* after the active child has been passed
        passed(p) ==
          IF p.kind # "value" THEN p
          ELSE IF p.sys.objs[id].done THEN Out(p.sys, "StopIteration", PyNone)
          ELSE value(p, NextValue(p.sys.st, ","))
    IN passed(PassChild([s EXCEPT !.objs[id].has_read = TRUE], id))

\* the while loop of TransientObject.__getitem__
RECURSIVE GetLoop(_, _, _)
GetLoop(s, id, key) ==
    LET \* self.done = self.data.fast_forward(",")
        forwarded(s1, f) ==
          IF f.exc # "" THEN Out([s1 EXCEPT !.st = f.st], f.exc, PyNone)
          ELSE GetLoop([s1 EXCEPT !.st = f.st, !.objs[id].done = f.flag], id, key)
        \* after next_value = self.data.next_value(",")
        read(nv, s2, s3) ==
          IF nv.exc # "" THEN Out(s2, nv.exc, PyNone)
          ELSE IF IsTransient(nv.ret)
          THEN ReturnTransient(s3, id, nv.ret[2], key)
          ELSE Out(s3, "value", nv.ret)
        \* if self.data.last_char == ord("}"): self.done = True
        last(nv, s2) ==
          read(nv, s2, IF nv.st.last_char = "}"
                       THEN [s2 EXCEPT !.objs[id].done = TRUE] ELSE s2)
        value(s1, nv) == last(nv, [s1 EXCEPT !.st = nv.st])
        \* after current_key = self.data.next_value(":")
        keyed(k, s1) ==
          IF k.exc # "" THEN Out(s1, k.exc, PyNone)
          ELSE IF k.ret = PyNone
          THEN Out([s1 EXCEPT !.objs[id].done = TRUE], "KeyError", <<"str", key>>)
          ELSE IF k.ret = <<"str", key>>
          THEN value(s1, NextValue(s1.st, ","))
          ELSE forwarded(s1, FastForward(s1.st, ",", FALSE))
        current_key(k) == keyed(k, [s EXCEPT !.st = k.st])
    IN
    IF s.objs[id].done THEN Out(s, "KeyError", <<"str", key>>)
    ELSE current_key(NextValue(s.st, ":"))

\* __getitem__ without the cached-child shortcut
GetItem_NoCache(s, id, key) ==
    LET passed(p) ==
          IF p.kind # "value" THEN p
          ELSE IF p.sys.objs[id].done THEN Out(p.sys, "KeyError", <<"str", key>>)
          ELSE GetLoop(p.sys, id, key)
    IN passed(PassChild([s EXCEPT !.objs[id].has_read = TRUE], id))

\* TransientObject.__getitem__(key)
GetItem(s, id, key) ==
    LET o == s.objs[id]
        \* after the active child has been passed
        passed(p) ==
          IF p.kind # "value" THEN p
          ELSE IF p.sys.objs[id].done THEN Out(p.sys, "KeyError", <<"str", key>>)
          ELSE GetLoop(p.sys, id, key)
    IN
    IF o.active_child # 0 /\ o.active_child_key = key
    THEN Out(s, "container", <<"ref", o.active_child>>)
    ELSE passed(PassChild([s EXCEPT !.objs[id].has_read = TRUE], id))

\* load(data_iter): the stream and the first value read with no terminator
Load(chunks) ==
    LET first(nv, s1) ==
          IF nv.exc # "" THEN Out(s1, nv.exc, PyNone)
          ELSE IF IsTransient(nv.ret)
          THEN Out([s1 EXCEPT !.objs = <<NewTransient(nv.ret[2], nv.st, 0, NoKey)>>],
                   "container", <<"ref", 1>>)
          ELSE Out(s1, "value", nv.ret)
        read(nv) == first(nv, [st |-> nv.st, objs |-> <<>>])
    IN read(NextValue(NewStream(chunks), NoChar))

(***************************************************************************)
(* The documents.  Each is the byte sequence of the text in its comment.   *)
(***************************************************************************)
\* {"a":1,"b":2}
DocKeys ==
    <<"{", QUOTE, "a", QUOTE, ":", "1", ",", QUOTE, "b", QUOTE, ":", "2", "}">>

\* [1,2,3]
DocList ==
    <<"[", "1", ",", "2", ",", "3", "]">>

\* {"a":[1,2],"b":{"x":3}}
DocNested ==
    <<"{", QUOTE, "a", QUOTE, ":", "[", "1", ",", "2", "]", ",", QUOTE, "b", QUOTE, ":", "{", QUOTE, "x", QUOTE, ":", "3", "}", "}">>

\* {"a":[[1],[2]],"b":3}
DocLists ==
    <<"{", QUOTE, "a", QUOTE, ":", "[", "[", "1", "]", ",", "[", "2", "]", "]", ",", QUOTE, "b", QUOTE, ":", "3", "}">>

\* [[[1],[2,7,8]],3]
DocDeep ==
    <<"[", "[", "[", "1", "]", ",", "[", "2", ",", "7", ",", "8", "]", "]", ",", "3", "]">>

\* {"a":[[],{"x":1,"b":5}]}
DocInner ==
    <<"{", QUOTE, "a", QUOTE, ":", "[", "[", "]", ",", "{", QUOTE, "x", QUOTE, ":", "1", ",", QUOTE, "b", QUOTE, ":", "5", "}", "]", "}">>

\* [null,1]
DocNull ==
    <<"[", "n", "u", "l", "l", ",", "1", "]">>

\* {"a":"{","b":1}
DocBrace ==
    <<"{", QUOTE, "a", QUOTE, ":", QUOTE, "{", QUOTE, ",", QUOTE, "b", QUOTE, ":", "1", "}">>

\* ["a\"b",1]
DocEscape ==
    <<"[", QUOTE, "a", BSLASH, QUOTE, "b", QUOTE, ",", "1", "]">>

\* [ ]
DocSpace ==
    <<"[", " ", "]">>

\* 12
DocScalar ==
    <<"1", "2">>

\* ["],",":}","["]
DocStruct ==
    <<"[", QUOTE, "]", ",", QUOTE, ",", QUOTE, ":", "}", QUOTE, ",", QUOTE, "[", QUOTE, "]">>

\* ["\"","\""]
DocQuotes ==
    <<"[", QUOTE, BSLASH, QUOTE, QUOTE, ",", QUOTE, BSLASH, QUOTE, QUOTE, "]">>

\* ["\"\"",1]
DocQuoted ==
    <<"[", QUOTE, BSLASH, QUOTE, BSLASH, QUOTE, QUOTE, ",", "1", "]">>

\* {"a":"\"","b":1}
DocSkip ==
    <<"{", QUOTE, "a", QUOTE, ":", QUOTE, BSLASH, QUOTE, QUOTE, ",", QUOTE, "b", QUOTE, ":", "1", "}">>

\* {"a":1,"b":2,"x":3}
DocThree ==
    <<"{", QUOTE, "a", QUOTE, ":", "1", ",", QUOTE, "b", QUOTE, ":", "2", ",", QUOTE, "x", QUOTE, ":", "3", "}">>

\* {"a":{"b":1},"b":2}: a key of the object occurs in a nested value too
DocShadow ==
    <<"{", QUOTE, "a", QUOTE, ":", "{", QUOTE, "b", QUOTE, ":", "1", "}", ",", QUOTE, "b", QUOTE, ":", "2", "}">>

\* {"a":1,
TruncComma ==
    <<"{", QUOTE, "a", QUOTE, ":", "1", ",">>

\* {"a":1
TruncValue ==
    <<"{", QUOTE, "a", QUOTE, ":", "1">>

\* [1,2
TruncList ==
    <<"[", "1", ",", "2">>

\* ["a
TruncString ==
    <<"[", QUOTE, "a">>

WFDocs ==
    {DocKeys, DocList, DocNested, DocLists, DocDeep, DocInner, DocNull, DocBrace, DocEscape, DocSpace, DocScalar,
     DocStruct, DocQuotes, DocQuoted,
     DocSkip, DocThree, DocShadow}

TruncDocs ==
    {TruncComma, TruncValue, TruncList, TruncString}

Docs == WFDocs \cup TruncDocs

Keys == {<<"a">>, <<"b">>, <<"x">>}

\* the byte source delivers chunks of 1 to MaxChunk bytes
MaxChunk == 3

ChunkSizes == 1..MaxChunk

\* the byte source: the document cut into chunks of n bytes (the last shorter)
RECURSIVE Chunks(_, _)
Chunks(d, n) ==
    IF Len(d) = 0 THEN <<>>
    ELSE IF Len(d) <= n THEN <<d>>
    ELSE <<SubSeq(d, 1, n)>> \o Chunks(SubSeq(d, n + 1, Len(d)), n)

(***************************************************************************)
(* A full traversal, as the tests walk a document: every list iterated to  *)
(* StopIteration, every key of an object looked up in document order (the  *)
(* keys are taken from ref, the decoded document), every nested container  *)
(* walked in turn, or materialized with as_object() from depth m on.  The  *)
(* result is the outcome carrying the rebuilt plain value, or the first    *)
(* exception.                                                              *)
(***************************************************************************)
RefElem(ref, i) ==
    IF ref[1] = "list" /\ i <= Len(ref[2]) THEN ref[2][i] ELSE PyNone

RefPairs(ref) == IF ref[1] = "obj" THEN ref[2] ELSE <<>>

RECURSIVE Walk(_, _, _, _)
RECURSIVE WalkList(_, _, _, _, _, _)
RECURSIVE WalkObject(_, _, _, _, _, _)

Walk(o, ref, d, m) ==
    IF o.kind # "container" THEN o
    ELSE IF d >= m THEN AsObject(o.sys, o.val[2])
    ELSE IF o.sys.objs[o.val[2]].kind = "list"
    THEN WalkList(o.sys, o.val[2], ref, d, m, <<>>)
    ELSE WalkObject(o.sys, o.val[2], ref, d, m, <<>>)

WalkList(s, id, ref, d, m, acc) ==
    LET walked(w) ==
          IF w.kind # "value" THEN w
          ELSE WalkList(w.sys, id, ref, d, m, Append(acc, w.val))
        item(o) ==
          IF o.kind = "StopIteration" THEN Out(o.sys, "value", <<"list", acc>>)
          ELSE walked(Walk(o, RefElem(ref, Len(acc) + 1), d + 1, m))
    IN item(ListNext(s, id))

WalkObject(s, id, ref, d, m, acc) ==
    LET walked(pair, w) ==
          IF w.kind # "value" THEN w
          ELSE WalkObject(w.sys, id, ref, d, m, Append(acc, <<pair[1], w.val>>))
        entry(pair) == walked(pair, Walk(GetItem(s, id, pair[1]), pair[2], d + 1, m))
    IN
    IF Len(acc) >= Len(RefPairs(ref)) THEN Out(s, "value", <<"obj", acc>>)
    ELSE entry(RefPairs(ref)[Len(acc) + 1])

\* as_object() is used from this depth on (0: on the root); beyond the
\* deepest container: never
MaxDepth == 4

(***************************************************************************)
(* The caller: load once, then any operation on any container it holds.    *)
(* res is the outcome of the latest operation; used is the set of          *)
(* explicit finish/as_object calls made so far; touched is the set of      *)
(* containers on which __next__ or __getitem__ has been called; yielded    *)
(* counts, per list, the elements that __next__ has returned; ended is the *)
(* set of lists whose __next__ has raised StopIteration.  alt is the same  *)
(* document read through another chunking (used by SpecChunk only).  ff    *)
(* holds the locals of a fast_forward call that is followed turn by turn   *)
(* (used by SpecCapture only): the container as_object was called on, the  *)
(* position the call started at, close_stack, count and buffer.            *)
(***************************************************************************)
Record(op, id, key, o) ==
    [op |-> op, id |-> id, key |-> key, kind |-> o.kind, val |-> o.val]

NoRes == [op |-> "none", id |-> 0, key |-> NoKey, kind |-> "none", val |-> PyNone]

NoAlt == Out([st |-> NewStream(<<>>), objs |-> <<>>], "none", PyNone)

\* no fast_forward call is being followed
NoCall == [id |-> 0, from |-> 0, close_stack |-> <<>>, count |-> 0, buffer |-> <<>>]

\* an operation starts with no failed read on its account
Begin(s) == [s EXCEPT !.st.starved = FALSE]

Ids == 1..Len(sys.objs)

Running == loaded /\ res.kind # "Hang" /\ res.op # "traverse"

Start(n) ==
    /\ sys = [st |-> NewStream(Chunks(doc, n)), objs |-> <<>>]
    /\ loaded = FALSE
    /\ res = NoRes
    /\ used = {}
    /\ touched = {}
    /\ yielded = <<>>
    /\ ended = {}
    /\ ff = NoCall

Init ==
    /\ doc \in Docs
    /\ \E n \in ChunkSizes : Start(n)
    /\ alt = NoAlt

Grow(y, s) == y \o [k \in 1..(Len(s.objs) - Len(y)) |-> 0]

CallLoad ==
    /\ ~loaded
    /\ LET returned(o) ==
             /\ sys' = o.sys
             /\ res' = Record("load", 0, NoKey, o)
             /\ yielded' = Grow(yielded, o.sys)
       IN returned(Load(sys.st.data_iter))
    /\ loaded' = TRUE
    /\ UNCHANGED <<doc, used, touched, ended, ff>>

CallNext ==
    /\ Running
    /\ \E id \in Ids :
        /\ sys.objs[id].kind = "list"
        /\ LET returned(o) ==
                 /\ sys' = o.sys
                 /\ res' = Record("next", id, NoKey, o)
                 /\ yielded' = Grow([yielded EXCEPT ![id] =
                                       IF o.kind \in {"value", "container"} THEN @ + 1 ELSE @],
                                    o.sys)
                 /\ ended' = IF o.kind = "StopIteration" THEN ended \cup {id} ELSE ended
           IN returned(ListNext(Begin(sys), id))
        /\ touched' = touched \cup {id}
    /\ UNCHANGED <<doc, loaded, used, ff>>

CallGetItem ==
    /\ Running
    /\ \E id \in Ids, key \in Keys :
        /\ sys.objs[id].kind = "object"
        /\ LET returned(o) ==
                 /\ sys' = o.sys
                 /\ res' = Record("getitem", id, key, o)
                 /\ yielded' = Grow(yielded, o.sys)
           IN returned(GetItem(Begin(sys), id, key))
        /\ touched' = touched \cup {id}
    /\ UNCHANGED <<doc, loaded, used, ended, ff>>

CallFinish ==
    /\ Running
    /\ \E id \in Ids :
        LET returned(o) ==
              /\ sys' = o.sys
              /\ res' = Record("finish", id, NoKey, o)
        IN returned(Finish(Begin(sys), id))
    /\ used' = used \cup {"finish"}
    /\ UNCHANGED <<doc, loaded, touched, yielded, ended, ff>>

CallAsObject ==
    /\ Running
    /\ \E id \in Ids :
        LET returned(o) ==
              /\ sys' = o.sys
              /\ res' = Record("as_object", id, NoKey, o)
        IN returned(AsObject(Begin(sys), id))
    /\ used' = used \cup {"as_object"}
    /\ UNCHANGED <<doc, loaded, touched, yielded, ended, ff>>

\* right after load, the caller walks the whole document and stops
CallTraverse ==
    /\ Running
    /\ res.op = "load"
    /\ \E m \in 0..MaxDepth :
        LET returned(o) ==
              /\ sys' = o.sys
              /\ res' = Record("traverse", 0, NoKey, o)
        IN returned(Walk(Out(Begin(sys), res.kind, res.val), JsonLoads(doc).v, 0, m))
    /\ UNCHANGED <<doc, loaded, used, touched, yielded, ended, ff>>

DoLoad == CallLoad /\ UNCHANGED alt

DoNext == CallNext /\ UNCHANGED alt

DoGetItem == CallGetItem /\ UNCHANGED alt

DoFinish == CallFinish /\ UNCHANGED alt

DoAsObject == CallAsObject /\ UNCHANGED alt

DoTraverse == CallTraverse /\ UNCHANGED alt

Next ==
    \/ DoLoad
    \/ DoNext
    \/ DoGetItem
    \/ DoFinish
    \/ DoAsObject
    \/ DoTraverse

Spec == Init /\ [][Next]_vars

(***************************************************************************)
(* The same caller with the document read twice, through two chunkings of  *)
(* the same bytes: every operation is applied to both systems.             *)
(***************************************************************************)
Apply(s, r) ==
    IF r.op = "load" THEN Load(s.st.data_iter)
    ELSE IF r.op = "next" THEN ListNext(Begin(s), r.id)
    ELSE IF r.op = "getitem" THEN GetItem(Begin(s), r.id, r.key)
    ELSE IF r.op = "finish" THEN Finish(Begin(s), r.id)
    ELSE AsObject(Begin(s), r.id)

Mirror == alt' = Apply(alt.sys, res')

InitChunk ==
    /\ doc \in Docs
    /\ Start(1)
    /\ \E n \in ChunkSizes \cup {Len(doc) + 1} :
          alt = Out([st |-> NewStream(Chunks(doc, n)), objs |-> <<>>], "none", PyNone)

BothLoad == CallLoad /\ Mirror

BothNext == CallNext /\ Mirror

BothGetItem == CallGetItem /\ Mirror

BothFinish == CallFinish /\ Mirror

BothAsObject == CallAsObject /\ Mirror

NextChunk ==
    \/ BothLoad
    \/ BothNext
    \/ BothGetItem
    \/ BothFinish
    \/ BothAsObject

SpecChunk == InitChunk /\ [][NextChunk]_vars

(***************************************************************************)
(* Key iteration and item iteration over a TransientObject.  The tests     *)
(* iterate an object and call items() on it; the methods are written here  *)
(* from section 4.5 of the specification, over the cursor, the scanner and *)
(* the value reader above and "sharing the same active_child bookkeeping": *)
(* a key that iteration has yielded and whose value has not been read is   *)
(* kept in active_child_key, with no active_child.                         *)
(***************************************************************************)
\* the key a key token stands for
KeyOf(ret) == IF ret[1] = "str" THEN ret[2] ELSE <<ret[1]>>

\* a key has been yielded and its value is still to be read
Pending(o) == o.active_child = 0 /\ o.active_child_key # NoKey

\* leave the current entry: finish the active child, or skip the value of
\* the key yielded last, and fast-forward to the next comma
PassEntry(s, id) ==
    LET forwarded(f) ==
          IF f.exc # ""
          THEN Out([s EXCEPT !.st = f.st], f.exc, PyNone)
          ELSE Out([s EXCEPT !.st = f.st,
                             !.objs[id].done = f.flag,
                             !.objs[id].active_child_key = NoKey],
                   "value", PyNone)
    IN
    IF s.objs[id].active_child # 0 THEN PassChild(s, id)
    ELSE IF Pending(s.objs[id]) THEN forwarded(FastForward(s.st, ",", FALSE))
    ELSE Out(s, "value", PyNone)

\* key iteration: the next key of the object, its value left unread
KeyNext(s, id) ==
    LET keyed(k, s1) ==
          IF k.exc # "" THEN Out(s1, k.exc, PyNone)
          ELSE IF k.ret = PyNone
          THEN Out([s1 EXCEPT !.objs[id].done = TRUE], "StopIteration", PyNone)
          ELSE Out([s1 EXCEPT !.objs[id].active_child_key = KeyOf(k.ret)],
                   "value", k.ret)
        current_key(s1, k) == keyed(k, [s1 EXCEPT !.st = k.st])
        passed(p) ==
          IF p.kind # "value" THEN p
          ELSE IF p.sys.objs[id].done THEN Out(p.sys, "StopIteration", PyNone)
          ELSE current_key(p.sys, NextValue(p.sys.st, ":"))
    IN passed(PassEntry([s EXCEPT !.objs[id].has_read = TRUE], id))

\* lookup(key) next to iteration: the value of the key yielded last is read
\* in place; any other key is looked up from the next entry on
LookupKey(s, id, key) ==
    LET read(nv, s2, s3) ==
          IF nv.exc # "" THEN Out(s2, nv.exc, PyNone)
          ELSE IF IsTransient(nv.ret)
          THEN ReturnTransient(s3, id, nv.ret[2], key)
          ELSE Out([s3 EXCEPT !.objs[id].active_child_key = NoKey], "value", nv.ret)
        last(nv, s2) ==
          read(nv, s2, IF nv.st.last_char = "}"
                       THEN [s2 EXCEPT !.objs[id].done = TRUE] ELSE s2)
        value(s1, nv) == last(nv, [s1 EXCEPT !.st = nv.st])
        passed(p) ==
          IF p.kind # "value" THEN p
          ELSE IF p.sys.objs[id].done THEN Out(p.sys, "KeyError", <<"str", key>>)
          ELSE GetLoop(p.sys, id, key)
    IN
    IF ~Pending(s.objs[id]) THEN GetItem(s, id, key)
    ELSE IF s.objs[id].active_child_key = key
    THEN value([s EXCEPT !.objs[id].has_read = TRUE], NextValue(s.st, ","))
    ELSE passed(PassEntry([s EXCEPT !.objs[id].has_read = TRUE], id))

\* item iteration: the next key and, fetched by lookup, its value; the
\* result carries the key beside the outcome
ItemNext(s, id) ==
    LET pair(key, o) == [sys |-> o.sys, kind |-> o.kind, val |-> o.val, key |-> key]
        keyed(k) ==
          IF k.kind # "value" THEN pair(NoKey, k)
          ELSE pair(KeyOf(k.val), LookupKey(k.sys, id, KeyOf(k.val)))
    IN keyed(KeyNext(s, id))

CallKeys ==
    /\ Running
    /\ \E id \in Ids :
        /\ sys.objs[id].kind = "object"
        /\ LET returned(o) ==
                 /\ sys' = o.sys
                 /\ res' = Record("keys", id, NoKey, o)
           IN returned(KeyNext(Begin(sys), id))
        /\ touched' = touched \cup {id}
    /\ UNCHANGED <<doc, loaded, used, yielded, ended, ff>>

CallLookup ==
    /\ Running
    /\ \E id \in Ids, key \in Keys :
        /\ sys.objs[id].kind = "object"
        /\ LET returned(o) ==
                 /\ sys' = o.sys
                 /\ res' = Record("getitem", id, key, o)
                 /\ yielded' = Grow(yielded, o.sys)
           IN returned(LookupKey(Begin(sys), id, key))
        /\ touched' = touched \cup {id}
    /\ UNCHANGED <<doc, loaded, used, ended, ff>>

CallItems ==
    /\ Running
    /\ \E id \in Ids :
        /\ sys.objs[id].kind = "object"
        /\ LET returned(o) ==
                 /\ sys' = o.sys
                 /\ res' = Record("items", id, o.key, o)
                 /\ yielded' = Grow(yielded, o.sys)
           IN returned(ItemNext(Begin(sys), id))
        /\ touched' = touched \cup {id}
    /\ UNCHANGED <<doc, loaded, used, ended, ff>>

DoKeys == CallKeys /\ UNCHANGED alt

DoLookup == CallLookup /\ UNCHANGED alt

DoItems == CallItems /\ UNCHANGED alt

NextIter ==
    \/ DoLoad
    \/ DoNext
    \/ DoKeys
    \/ DoLookup
    \/ DoItems
    \/ DoFinish
    \/ DoAsObject

SpecIter == Init /\ [][NextIter]_vars

(***************************************************************************)
(* fast_forward on its own.  The cursor is moved byte by byte to any       *)
(* position of the document and fast_forward is called there in skip mode  *)
(* with one of the closers the code passes: "," (lines 165, 196, 215) or a *)
(* finish_char (line 138).  res.id keeps the position the call started at, *)
(* res.key the closer, res.kind the boolean returned or the exception.     *)
(***************************************************************************)
Closers == {",", "]", "}"}

DoRead ==
    /\ res.op = "none"
    /\ Remaining(sys.st) > 0
    /\ sys' = [sys EXCEPT !.st = Read(sys.st).st]
    /\ UNCHANGED <<doc, alt, loaded, res, used, touched, yielded, ended, ff>>

DoFastForward ==
    /\ res.op = "none"
    /\ \E closer \in Closers :
        LET returned(f) ==
              /\ sys' = [sys EXCEPT !.st = f.st]
              /\ res' = [op |-> "fast_forward", id |-> Consumed(sys.st),
                         key |-> <<closer>>,
                         kind |-> IF f.exc # "" THEN f.exc
                                  ELSE IF f.flag THEN "True" ELSE "False",
                         val |-> PyNone]
        IN returned(FastForward(Begin(sys).st, closer, FALSE))
    /\ UNCHANGED <<doc, alt, loaded, used, touched, yielded, ended, ff>>

NextFF ==
    \/ DoRead
    \/ DoFastForward

SpecFF == Init /\ [][NextFF]_vars

(***************************************************************************)
(* read() on its own.  The byte source yields the document in chunks of    *)
(* any sizes from 1 to MaxChunk, and read() is called over and over, past  *)
(* the end of the source too.  alt keeps a stream over the same source     *)
(* that is never read; res.id counts the bytes that read() has returned,   *)
(* res.val is the byte returned last.                                      *)
(***************************************************************************)
\* the documents read byte by byte are at most this long
MaxReadLen == 8

\* every way of cutting d into non-empty chunks of at most MaxChunk bytes
RECURSIVE Splits(_)
Splits(d) ==
    IF d = <<>> THEN {<<>>}
    ELSE UNION {{<<SubSeq(d, 1, n)>> \o t : t \in Splits(SubSeq(d, n + 1, Len(d)))} :
                  n \in {m \in 1..MaxChunk : m <= Len(d)}}

InitRead ==
    /\ doc \in {d \in Docs : Len(d) <= MaxReadLen}
    /\ \E chunks \in Splits(doc) :
        /\ sys = [st |-> NewStream(chunks), objs |-> <<>>]
        /\ alt = Out([st |-> NewStream(chunks), objs |-> <<>>], "none", PyNone)
    /\ loaded = FALSE
    /\ res = NoRes
    /\ used = {}
    /\ touched = {}
    /\ yielded = <<>>
    /\ ended = {}
    /\ ff = NoCall

ReadByte ==
    /\ LET returned(r) ==
             /\ sys' = [sys EXCEPT !.st = r.st]
             /\ res' = [op |-> "read",
                        id |-> IF r.c = EOF THEN res.id ELSE res.id + 1,
                        key |-> NoKey,
                        kind |-> IF r.c = EOF THEN "EOFError" ELSE "value",
                        val |-> IF r.c = EOF THEN PyNone ELSE <<"byte", <<r.c>>>>]
       IN returned(Read(sys.st))
    /\ UNCHANGED <<doc, alt, loaded, used, touched, yielded, ended, ff>>

NextRead == ReadByte

SpecRead == InitRead /\ [][NextRead]_vars

(***************************************************************************)
(* as_object() followed turn by turn.  The document is one of Docs, or a   *)
(* list holding one string, or an object holding one string under the key  *)
(* k, of every length up to MaxBody, so that the captured text ends        *)
(* before, at and after each multiple of the buffer increment.  The root   *)
(* is loaded and as_object() is called on it; every turn of the while loop *)
(* of fast_forward is a step.  When the loop ends, res.kind is "loads" and *)
(* res.val is <<"text", value_string>>, the argument of json.loads.        *)
(***************************************************************************)
\* the strings captured are at most this long
MaxBody == 66

\* a string of n characters, no two neighbours alike
Body(n) ==
    [k \in 1..n |-> <<"0", "1", "2", "3", "4", "5", "6", "7", "8", "9">>[(k % 10) + 1]]

ListOf(n) == <<"[", QUOTE>> \o Body(n) \o <<QUOTE, "]">>

ObjectOf(n) == <<"{", QUOTE, "k", QUOTE, ":", QUOTE>> \o Body(n) \o <<QUOTE, "}">>

CaptureDocs == {ListOf(n) : n \in 0..MaxBody} \cup {ObjectOf(n) : n \in 0..MaxBody}

InitCapture ==
    /\ doc \in Docs \cup CaptureDocs
    /\ \E n \in ChunkSizes : Start(n)
    /\ alt = NoAlt

Outcome(id, kind, val) ==
    [op |-> "as_object", id |-> id, key |-> NoKey, kind |-> kind, val |-> val]

\* as_object() up to the while loop of fast_forward (lines 141-147, 54-63)
AsObjectEnter ==
    /\ Running
    /\ ff = NoCall
    /\ \E id \in Ids :
        LET o == sys.objs[id]
            closer == FinishChar(o.kind)
        IN
        IF o.has_read
        THEN /\ res' = Outcome(id, "BufferError", PyNone)
             /\ UNCHANGED <<sys, ff>>
        ELSE /\ sys' = [Begin(sys) EXCEPT !.objs[id].done = TRUE]
             /\ ff' = [id |-> id, from |-> Consumed(sys.st),
                       close_stack |-> <<closer>>, count |-> 0,
                       buffer |-> [Zeros(BufferIncrement) EXCEPT ![1] = Opener(closer)]]
             /\ res' = Outcome(id, "running", PyNone)
    /\ used' = used \cup {"as_object"}
    /\ UNCHANGED <<doc, alt, loaded, touched, yielded, ended>>

\* one turn of the while loop (lines 65-87)
FastForwardTurn ==
    /\ ff.id # 0
    /\ ff.close_stack # <<>>
    /\ LET top == ff.close_stack[Len(ff.close_stack)]
           count == ff.count + 1
           stacked(r, stack) ==
             /\ ff' = [ff EXCEPT !.close_stack = stack, !.count = count,
                                 !.buffer = IF ff.buffer # <<>>
                                            THEN BufferPut(ff.buffer, count, r.c)
                                            ELSE ff.buffer]
             /\ UNCHANGED res
           turn(r) ==
             /\ sys' = [sys EXCEPT !.st = r.st]
             /\ IF r.c = EOF
                THEN ff' = NoCall /\ res' = Outcome(ff.id, "EOFError", PyNone)
                ELSE IF r.c = top
                THEN stacked(r, SubSeq(ff.close_stack, 1, Len(ff.close_stack) - 1))
                ELSE IF r.c = QUOTE
                THEN stacked(r, Append(ff.close_stack, QUOTE))
                ELSE IF top = QUOTE
                THEN stacked(r, ff.close_stack)
                ELSE IF r.c \in {"}", "]"}
                THEN ff' = NoCall /\ res' = Outcome(ff.id, "value", <<"bool", <<>>>>)
                ELSE IF r.c = "{"
                THEN stacked(r, Append(ff.close_stack, "}"))
                ELSE IF r.c = "["
                THEN stacked(r, Append(ff.close_stack, "]"))
                ELSE stacked(r, ff.close_stack)
       IN turn(Read(sys.st))
    /\ UNCHANGED <<doc, alt, loaded, used, touched, yielded, ended>>

\* after the loop (lines 88-91): the text is handed to json.loads
FastForwardReturn ==
    /\ ff.id # 0
    /\ ff.close_stack = <<>>
    /\ res' = Outcome(ff.id, "loads", <<"text", SubSeq(ff.buffer, 1, ff.count + 1)>>)
    /\ ff' = NoCall
    /\ UNCHANGED <<doc, sys, alt, loaded, used, touched, yielded, ended>>

NextCapture ==
    \/ DoLoad
    \/ AsObjectEnter
    \/ FastForwardTurn
    \/ FastForwardReturn

SpecCapture == InitCapture /\ [][NextCapture]_vars

(***************************************************************************)
(* What the document says, read with the whole-document decoder's rules:   *)
(* the entries of a container and where each lies.  The claims compare the *)
(* code's answers with these.                                              *)
(***************************************************************************)
\* is byte p inside a string (escapes honoured), scanning from byte i
RECURSIVE RefInString(_, _, _, _)
RefInString(d, i, in_str, p) ==
    IF i >= p \/ i > Len(d) THEN in_str
    ELSE IF ~in_str THEN RefInString(d, i + 1, d[i] = QUOTE, p)
    ELSE IF d[i] = BSLASH THEN RefInString(d, i + 2, TRUE, p)
    ELSE RefInString(d, i + 1, d[i] # QUOTE, p)

\* the entries of the container body that starts at byte p, in order:
\* key (NoKey in a list), kpos and vpos (the first byte of the key and of
\* the value), vend (the byte after the value) and v (the decoded value)
RECURSIVE RefItems(_, _, _, _)
RefItems(d, p, isobj, acc) ==
    LET q == SkipWs(d, p) IN
    IF q > Len(d) \/ d[q] \in {"]", "}"} THEN acc
    ELSE
      LET k == IF isobj /\ d[q] = QUOTE THEN ParseString(d, q + 1, <<>>) ELSE DecodeFail
          c == IF isobj THEN SkipWs(d, k.e) ELSE q - 1
          colon == ~isobj \/ (k.ok /\ c <= Len(d) /\ d[c] = ":")
          x == IF colon THEN ParseValue(d, c + 1) ELSE DecodeFail
      IN
      IF ~x.ok THEN acc
      ELSE
        LET e == [key |-> IF isobj THEN k.v[2] ELSE NoKey, kpos |-> q,
                  vpos |-> SkipWs(d, c + 1), vend |-> x.e, v |-> x.v]
            r == SkipWs(d, x.e)
        IN
        IF r <= Len(d) /\ d[r] = ","
        THEN RefItems(d, r + 1, isobj, Append(acc, e))
        ELSE Append(acc, e)

\* the entries of container id, and those the cursor has not reached yet
Items(id) ==
    RefItems(doc, sys.objs[id].start + 1, sys.objs[id].kind = "object", <<>>)

Unpassed(id) ==
    SelectSeq(Items(id), LAMBDA e : e.kpos > Consumed(sys.st))

UnpassedKeys(id) == {Unpassed(id)[k].key : k \in 1..Len(Unpassed(id))}

\* the container was opened by a bracket of the document, not by a bracket
\* byte inside a string
RealContainer(id) ==
    ~RefInString(doc, 1, FALSE, sys.objs[id].start)

\* the container is the root or the active child of a live container
RECURSIVE Live(_)
Live(id) ==
    LET p == sys.objs[id].parent IN
    p = 0 \/ (sys.objs[p].active_child = id /\ Live(p))

Passed(id) == ~Live(id)

IsContainerValue(v) == v[1] \in {"list", "obj"}

\* the outcome r (in the system s) is the value of entry e: the decoded scalar,
\* or a new lazy container of the right kind opened at the entry's bracket
Correct(r, s, e) ==
    IF IsContainerValue(e.v)
    THEN /\ r.kind = "container"
         /\ s.objs[r.val[2]].start = e.vpos
         /\ s.objs[r.val[2]].kind = (IF e.v[1] = "list" THEN "list" ELSE "object")
    ELSE r.kind = "value" /\ r.val = e.v

FirstWithKey(items, key) ==
    items[CHOOSE k \in 1..Len(items) :
            /\ items[k].key = key
            /\ \A j \in 1..(k - 1) : items[j].key # key]

(***************************************************************************)
(* The claims.  A claim about what an operation does is stated of the step *)
(* that performs it: res' names the operation, the unprimed variables are  *)
(* the state it was called in.                                             *)
(***************************************************************************)
Cached(id, key) ==
    sys.objs[id].active_child # 0 /\ sys.objs[id].active_child_key = key

\* the entry an operation with outcome r on container r.id sets out to read:
\* the element of a list that lies at the cursor, or the first entry not yet
\* passed that has the key looked up
HasTarget(r) ==
    IF r.op = "next" THEN Unpassed(r.id) # <<>>
    ELSE /\ r.op = "getitem"
         /\ r.key \in UnpassedKeys(r.id)
         /\ ~Cached(r.id, r.key)

Target(r) ==
    IF r.op = "next" THEN Unpassed(r.id)[1]
    ELSE FirstWithKey(Unpassed(r.id), r.key)

\* the bytes that delimit values and containers
Structural == {"[", "]", "{", "}", ",", ":"}

\* v is a string with a character of set
HasByte(v, set) == v[1] = "str" /\ \E k \in 1..Len(v[2]) : v[2][k] \in set

\* the characters of a string that could be taken for the end of the string
\* or for a bracket of the document
Confusing == {QUOTE, BSLASH, "{", "}", "[", "]"}

\* an entry that lies before entry e and is still to be passed holds a
\* string with such a character
SkipsConfusing(id, e) ==
    \E k \in 1..Len(Unpassed(id)) :
        /\ Unpassed(id)[k].kpos < e.kpos
        /\ HasByte(Unpassed(id)[k].v, Confusing)

\* the operation is on a live container of a well-formed document and
\* only lookups and iterations have been made
Navigating(r) ==
    /\ r.op \in {"next", "getitem"}
    /\ doc \in WFDocs
    /\ used = {}
    /\ Live(r.id)
    /\ RealContainer(r.id)

\* C2: on a well-formed document, after lookups and iterations only, a
\* lookup of a key that is not among the object's not-yet-passed entries and
\* is not the cached active child's key raises KeyError carrying that key.
C2_PassedKeyNotFound ==
    [][(/\ res'.op = "getitem"
        /\ doc \in WFDocs
        /\ used = {}
        /\ res'.key \notin UnpassedKeys(res'.id)
        /\ ~Cached(res'.id, res'.key))
       => (res'.kind = "KeyError" /\ res'.val = <<"str", res'.key>>)]_vars

\* C3: on a well-formed document, with no explicit finish, when a live object
\* has an active child (read to any extent), the lookup of a later key that
\* is present returns that key's value.
C3_SiblingAfterAbandon ==
    [][(/\ res'.op = "getitem"
        /\ doc \in WFDocs
        /\ used = {}
        /\ Live(res'.id)
        /\ RealContainer(res'.id)
        /\ sys.objs[res'.id].active_child # 0
        /\ ~Cached(res'.id, res'.key)
        /\ res'.key \in UnpassedKeys(res'.id))
       => Correct(res', sys', FirstWithKey(Unpassed(res'.id), res'.key))]_vars

\* the container has just been returned and nothing has been done with it
JustReturned(id) ==
    /\ res.kind = "container"
    /\ res.val = <<"ref", id>>
    /\ ~sys.objs[id].has_read
    /\ ~sys.objs[id].done
    /\ Consumed(sys.st) = sys.objs[id].start

\* C4: as_object() on a container just returned and not read returns what
\* the whole-document decoder yields for the container's text, marks the
\* container done and leaves the cursor just past its closing byte.
C4_AsObjectFresh ==
    [][(/\ res'.op = "as_object"
        /\ doc \in WFDocs
        /\ JustReturned(res'.id)
        /\ RealContainer(res'.id))
       => LET x == ParseValue(doc, sys.objs[res'.id].start) IN
          /\ res'.kind = "value"
          /\ res'.val = x.v
          /\ sys'.objs[res'.id].done
          /\ Consumed(sys'.st) = x.e - 1]_vars

\* what a failing call must leave alone: the cursor and every container
SameSystem == sys'.st = Begin(sys).st /\ sys'.objs = sys.objs

\* C5: as_object() on a container on which a lookup or an iteration has been
\* performed raises BufferError and changes neither the cursor nor any
\* container.
C5_AsObjectAfterRead ==
    [][(res'.op = "as_object" /\ res'.id \in touched)
       => (res'.kind = "BufferError" /\ SameSystem)]_vars

C5_Witness ==
    /\ res.op = "as_object"
    /\ res.id \in touched
    /\ res.kind = "BufferError"
    /\ ~sys.objs[res.id].done

\* C6: on a truncated document, an operation that asks for a byte after the
\* source is spent raises EOFError.
C6_ExhaustedSurfaces ==
    (/\ doc \in TruncDocs
     /\ res.op \in {"getitem", "next", "finish", "as_object"}
     /\ sys.st.starved)
    => res.kind = "EOFError"

\* C8: when the active child of an object was returned by lookup(key), a
\* further lookup(key) returns that same container and changes nothing.
C8_CachedChild ==
    [][(/\ res'.op = "getitem"
        /\ sys.objs[res'.id].active_child # 0
        /\ sys.objs[sys.objs[res'.id].active_child].parent = res'.id
        /\ sys.objs[sys.objs[res'.id].active_child].pkey = res'.key)
       => (/\ res'.kind = "container"
           /\ res'.val = <<"ref", sys.objs[res'.id].active_child>>
           /\ SameSystem)]_vars

\* a lookup returned a container that had already been read from: a repeat
C8_Witness ==
    /\ res.op = "getitem"
    /\ res.kind = "container"
    /\ sys.objs[res.val[2]].has_read
    /\ sys.objs[res.val[2]].pkey = res.key

\* C9: iterating a live list of a well-formed document yields its elements
\* in order, each once, then StopIteration; after a StopIteration every
\* __next__ raises StopIteration again and consumes no byte.
C9_ListIteration ==
    [][(/\ res'.op = "next"
        /\ doc \in WFDocs
        /\ used = {}
        /\ Live(res'.id)
        /\ RealContainer(res'.id))
       => LET items == Items(res'.id)
              n == yielded[res'.id]
          IN
          /\ n < Len(items) => Correct(res', sys', items[n + 1])
          /\ n >= Len(items) => res'.kind = "StopIteration"
          /\ res'.id \in ended =>
                (res'.kind = "StopIteration" /\ Consumed(sys'.st) = Consumed(sys.st))]_vars

\* C10: on a well-formed document, every lookup on a passed container raises
\* KeyError and every __next__ on a passed container raises StopIteration.
C10_PassedReference ==
    [][(/\ res'.op \in {"getitem", "next"}
        /\ doc \in WFDocs
        /\ Passed(res'.id))
       => res'.kind = (IF res'.op = "next" THEN "StopIteration" ELSE "KeyError")]_vars

\* C1: on a well-formed document, load followed by a full traversal rebuilds
\* the value the whole-document decoder yields for the same bytes.
C1_TraversalEqualsLoads ==
    (res.op = "traverse" /\ doc \in WFDocs)
    => (res.kind = "value" /\ res.val = JsonLoads(doc).v)

\* C7: after every operation, the two chunkings have given the same result,
\* consumed the same number of bytes and hold the same containers.
C7_ChunkingUnobservable ==
    loaded =>
    /\ alt.kind = res.kind
    /\ alt.val = res.val
    /\ Consumed(alt.sys.st) = Consumed(sys.st)
    /\ alt.sys.objs = sys.objs
    /\ alt.sys.st.last_char = sys.st.last_char

\* an operation has pulled a partial value across several chunks on one side
\* while the other side holds fewer, larger chunks
C7_Witness ==
    /\ res.op \in {"next", "getitem", "as_object", "finish"}
    /\ res.kind \in {"value", "container"}
    /\ Len(alt.sys.st.chunk) > 1
    /\ alt.sys.st.chunk # sys.st.chunk
    /\ Len(sys.objs) >= 2

\* C11: a string element or value that contains bracket, brace, comma or
\* colon characters (and no quote or backslash), read by __next__ or
\* __getitem__, is returned as exactly that string.
C11_StructuralInString ==
    [][(/\ Navigating(res')
        /\ HasTarget(res')
        /\ HasByte(Target(res').v, Structural)
        /\ ~HasByte(Target(res').v, {QUOTE, BSLASH}))
       => (res'.kind = "value" /\ res'.val = Target(res').v)]_vars

\* C12: a string element or value with a backslash-escaped quote, read by
\* __next__ or __getitem__, is returned as the decoder yields it, and so is
\* the element or key read next from the same container.
C12_EscapedQuoteInString ==
    [][(/\ Navigating(res')
        /\ HasTarget(res')
        /\ \/ HasByte(Target(res').v, {QUOTE})
           \/ /\ res.op \in {"next", "getitem"}
              /\ res.id = res'.id
              /\ res.kind = "value"
              /\ HasByte(res.val, {QUOTE}))
       => Correct(res', sys', Target(res'))]_vars

\* C13: a lookup that skips earlier entries whose string values contain
\* escaped quotes, escaped backslashes, braces or brackets finds the later
\* key and returns its value.
C13_SkipOverStrings ==
    [][(/\ Navigating(res')
        /\ res'.op = "getitem"
        /\ sys.objs[res'.id].active_child = 0
        /\ HasTarget(res')
        /\ SkipsConfusing(res'.id, Target(res')))
       => Correct(res', sys', Target(res'))]_vars

\* C14: as_object() on an unread object with a string value that contains
\* escaped quotes, escaped backslashes, braces or brackets returns the
\* mapping the whole-document decoder yields for the object's text, the
\* capture ending at the object's own closing brace.
C14_AsObjectOverStrings ==
    [][(/\ res'.op = "as_object"
        /\ doc \in WFDocs
        /\ JustReturned(res'.id)
        /\ RealContainer(res'.id)
        /\ sys.objs[res'.id].kind = "object"
        /\ \E k \in 1..Len(Items(res'.id)) :
               HasByte(Items(res'.id)[k].v, Confusing))
       => LET x == ParseValue(doc, sys.objs[res'.id].start) IN
          /\ res'.kind = "value"
          /\ res'.val = x.v
          /\ Consumed(sys'.st) = x.e - 1]_vars

\* C15: key iteration over a live object of a well-formed document yields
\* the key of the first entry the cursor has not passed (so every key once,
\* in document order, and after lookups only the keys after the last entry
\* passed), and StopIteration when no entry is left.
C15_KeyIteration ==
    [][(/\ res'.op = "keys"
        /\ doc \in WFDocs
        /\ used = {}
        /\ Live(res'.id)
        /\ RealContainer(res'.id))
       => IF Unpassed(res'.id) # <<>>
          THEN res'.kind = "value" /\ res'.val = <<"str", Unpassed(res'.id)[1].key>>
          ELSE res'.kind = "StopIteration"]_vars

\* the entries of container id that the cursor has entered, the last of them
\* being the entry of the key that key iteration yielded last
Entered(id) ==
    SelectSeq(Items(id), LAMBDA e : e.kpos <= Consumed(sys.st))

\* an item-iteration step, or a lookup made next to key iteration, on a live
\* object of a well-formed document after lookups and iterations only
Iterating(r) ==
    /\ r.op \in {"items", "getitem"}
    /\ doc \in WFDocs
    /\ used = {}
    /\ Live(r.id)
    /\ RealContainer(r.id)
    /\ sys.objs[r.id].kind = "object"

\* C16: item iteration yields the next entry not yet passed as its key and
\* its value (a scalar decoded, a container as a new lazy container), or
\* ends when none is left; a lookup of the key that key iteration yielded
\* last returns that entry's value and passes no further entry; a lookup of
\* a key that lies only among the passed entries raises KeyError.
C16_ItemIteration ==
    [][Iterating(res') =>
         LET id == res'.id
             o == sys.objs[id]
         IN
         /\ res'.op = "items" =>
              IF Unpassed(id) # <<>>
              THEN /\ res'.key = Unpassed(id)[1].key
                   /\ Correct(res', sys', Unpassed(id)[1])
              ELSE res'.kind = "StopIteration"
         /\ (res'.op = "getitem" /\ Pending(o) /\ o.active_child_key = res'.key
               /\ Entered(id) # <<>>) =>
              /\ Correct(res', sys', Entered(id)[Len(Entered(id))])
              /\ \A k \in 1..Len(Unpassed(id)) :
                    Unpassed(id)[k].kpos > Consumed(sys'.st)
         /\ (res'.op = "getitem" /\ ~Cached(id, res'.key)
               /\ ~(Pending(o) /\ o.active_child_key = res'.key)
               /\ res'.key \notin UnpassedKeys(id)) =>
              res'.kind = "KeyError"]_vars

\* container id is not done and hangs on the chain of active children that
\* starts at the root, every container of the chain being not done
RECURSIVE Chained(_)
Chained(id) ==
    LET p == sys.objs[id].parent IN
    /\ ~sys.objs[id].done
    /\ p = 0 \/ (sys.objs[p].active_child = id /\ Chained(p))

\* C17: between operations on a well-formed document, every container that
\* is not done is the root or the active child of a container that is not
\* done either, so the unfinished containers form one chain from the root.
C17_ActiveChildExclusivity ==
    (doc \in WFDocs /\ loaded) =>
        \A id \in Ids : ~sys.objs[id].done => Chained(id)

\* C18: the done flag of a container never goes back from true to false,
\* whatever operation is made on it or on another container of the stream.
C18_DoneMonotonic ==
    [][\A id \in Ids : sys.objs[id].done => sys'.objs[id].done]_vars

\* the position of the bracket that closes container id in the document
ClosingByte(id) == ParseValue(doc, sys.objs[id].start).e - 1

\* every done container that a bracket of the document opened has been
\* consumed through its closing bracket
DoneIsConsumed ==
    (doc \in WFDocs /\ loaded) =>
        \A id \in Ids :
            (sys.objs[id].done /\ RealContainer(id)) =>
                Consumed(sys.st) >= ClosingByte(id)

\* finish() on a container that is not done leaves the cursor just past its
\* closing bracket, the container and its active child done
FinishIsExact ==
    (/\ res'.op = "finish"
     /\ doc \in WFDocs
     /\ RealContainer(res'.id)
     /\ ~sys.objs[res'.id].done) =>
        /\ res'.kind = "value"
        /\ Consumed(sys'.st) = ClosingByte(res'.id)
        /\ sys'.objs[res'.id].done
        /\ sys.objs[res'.id].active_child # 0 =>
              sys'.objs[sys.objs[res'.id].active_child].done

\* C19: on a well-formed document, between operations, a container is done
\* only if the cursor is past its closing bracket (so a list that returns an
\* element is marked done only when the read stopped at the list's own `]`),
\* and finish() on a container that is not done consumes exactly through
\* its closing bracket, finishing its active child first.
C19_DoneMeansConsumed ==
    []DoneIsConsumed /\ [][FinishIsExact]_vars

\* where a skip that starts at byte i ends: the first byte outside every
\* string and outside every list and object opened since the start that is
\* the closer (flag false) or a closing bracket (flag true); pos 0 if none
RECURSIVE SkipEnd(_, _, _, _, _)
SkipEnd(d, i, depth, in_str, closer) ==
    IF i > Len(d) THEN [pos |-> 0, flag |-> FALSE]
    ELSE IF in_str
    THEN IF d[i] = BSLASH THEN SkipEnd(d, i + 2, depth, TRUE, closer)
         ELSE SkipEnd(d, i + 1, depth, d[i] # QUOTE, closer)
    ELSE IF d[i] = QUOTE THEN SkipEnd(d, i + 1, depth, TRUE, closer)
    ELSE IF depth = 0 /\ d[i] = closer THEN [pos |-> i, flag |-> FALSE]
    ELSE IF d[i] \in {"}", "]"}
    THEN IF depth = 0 THEN [pos |-> i, flag |-> TRUE]
         ELSE SkipEnd(d, i + 1, depth - 1, FALSE, closer)
    ELSE IF d[i] \in {"{", "["} THEN SkipEnd(d, i + 1, depth + 1, FALSE, closer)
    ELSE SkipEnd(d, i + 1, depth, FALSE, closer)

\* no string of the document holds a quote character
NoQuoteInStrings(d) ==
    \A k \in 1..(Len(d) - 1) : d[k] = BSLASH => d[k + 1] # QUOTE

\* fast_forward was called with `consumed` bytes read, inside the body of
\* the root container of a well-formed document and outside any string
SkipInBody(consumed) ==
    /\ doc \in WFDocs
    /\ NoQuoteInStrings(doc)
    /\ doc[1] \in {"[", "{"}
    /\ consumed \in 1..(Len(doc) - 1)
    /\ ~RefInString(doc, 1, FALSE, consumed + 1)

\* C20: fast_forward(closer) in skip mode, started outside any string in a
\* well-formed container body whose strings hold no quote character, stops
\* just past the first byte outside every string and at nesting depth 0
\* that is the closer (it returns False) or an unmatched `}` or `]` (it
\* returns True); bytes in strings and in nested containers do not end it.
C20_SkipEndsAtDepthZero ==
    [][(res'.op = "fast_forward" /\ SkipInBody(res'.id)) =>
         LET e == SkipEnd(doc, res'.id + 1, 0, FALSE, res'.key[1]) IN
         /\ e.pos # 0
         /\ res'.kind = (IF e.flag THEN "True" ELSE "False")
         /\ Consumed(sys'.st) = e.pos]_vars

\* a skip has gone over a byte inside a string that, outside a string and
\* at depth 0, would have ended it
C20_Witness ==
    /\ res.op = "fast_forward"
    /\ SkipInBody(res.id)
    /\ res.kind \in {"True", "False"}
    /\ \E k \in (res.id + 1)..(Consumed(sys.st) - 1) :
          /\ doc[k] \in {res.key[1], "}", "]"}
          /\ RefInString(doc, 1, FALSE, k)

\* C21: on a well-formed document, the first lookup on an object that has
\* just been returned, for a key among the object's own entries, returns
\* the value of the first entry with that key, however deeply the values of
\* the entries before it are nested and whatever keys they hold.
C21_FirstLookup ==
    [][(/\ res'.op = "getitem"
        /\ doc \in WFDocs
        /\ JustReturned(res'.id)
        /\ RealContainer(res'.id)
        /\ res'.key \in UnpassedKeys(res'.id))
       => Correct(res', sys', FirstWithKey(Items(res'.id), res'.key))]_vars

\* byte c of the document is a delimiter outside any string, and the text
\* of the scalar v ends there
EndsScalar(c, v) ==
    LET ends(x) == x.ok /\ x.v = v /\ SkipWs(doc, x.e) = c IN
    /\ c \in 1..Len(doc)
    /\ doc[c] \in {",", "]", "}"}
    /\ ~RefInString(doc, 1, FALSE, c)
    /\ \E p \in 1..(c - 1) : ends(ParseValue(doc, p))

\* the chunk in hand was pulled for a byte that has been consumed
NoChunkAhead(st) == st.i >= 1

\* C22: when load, a lookup or an iteration step returns a new lazy
\* container, the cursor is just past the container's opening bracket and
\* the container is not done, not read and without active child; when a
\* lookup or an iteration step returns a scalar, the cursor is just past
\* the delimiter that ended the scalar; no chunk has been pulled beyond
\* the one the cursor is in.
C22_NoReadAhead ==
    [][/\ (/\ res'.op \in {"load", "next", "getitem"}
           /\ res'.kind = "container"
           /\ res'.val[2] = Len(sys.objs) + 1)
          => LET o == sys'.objs[res'.val[2]] IN
             /\ Consumed(sys'.st) = o.start
             /\ doc[o.start] = (IF o.kind = "list" THEN "[" ELSE "{")
             /\ ~o.done /\ ~o.has_read /\ o.active_child = 0
             /\ NoChunkAhead(sys'.st)
       /\ (res'.op \in {"next", "getitem"} /\ res'.kind = "value")
          => /\ EndsScalar(Consumed(sys'.st), res'.val)
             /\ NoChunkAhead(sys'.st)]_vars

\* the chunks of the byte source, as given to load
Source == alt.sys.st.data_iter

\* the bytes of the chunks, one after the other
RECURSIVE Concat(_)
Concat(chunks) ==
    IF chunks = <<>> THEN <<>> ELSE Head(chunks) \o Concat(Tail(chunks))

\* the least number of leading chunks that hold k bytes
RECURSIVE MinChunks(_, _)
MinChunks(chunks, k) ==
    IF k <= 0 \/ chunks = <<>> THEN 0
    ELSE 1 + MinChunks(Tail(chunks), k - Len(Head(chunks)))

\* the fields of the stream that the code has
CursorState(st) == <<st.data_iter, st.chunk, st.i, st.last_char>>

\* C23: over a source of non-empty chunks, the k-th read() returns the k-th
\* byte of the concatenated chunks; the chunks pulled from the source are
\* the fewest that hold the bytes returned so far; once all bytes have been
\* returned, read() raises EOFError and leaves the stream as it was.
C23_ReadInOrder ==
    [][res'.op = "read" =>
         IF res.id < Len(Concat(Source))
         THEN /\ res'.kind = "value"
              /\ res'.id = res.id + 1
              /\ res'.val = <<"byte", <<Concat(Source)[res.id + 1]>>>>
              /\ Len(Source) - Len(sys'.st.data_iter) = MinChunks(Source, res'.id)
         ELSE /\ res'.kind = "EOFError"
              /\ res'.id = res.id
              /\ CursorState(sys'.st) = CursorState(sys.st)]_vars

\* every byte of a source of at least three chunks of different sizes has
\* been returned and a further read() has failed
C23_Witness ==
    /\ res.op = "read"
    /\ res.kind = "EOFError"
    /\ res.id = Len(doc)
    /\ Len(Source) >= 3
    /\ \E a, b \in 1..Len(Source) : Len(Source[a]) < Len(Source[b])
    /\ sys.st.data_iter = <<>>

\* C24: every call of load, __getitem__, __next__, finish or as_object
\* returns or raises, on well-formed documents and on documents cut short
\* alike: no call runs forever.
C24_Terminates == res.kind # "Hang"

\* C25: an operation called on a container that is done reads no byte:
\* the stream is after the call as it was before.
C25_DoneReadsNothing ==
    [][(/\ res'.op \in {"getitem", "next", "finish", "as_object"}
        /\ sys.objs[res'.id].done)
       => CursorState(sys'.st) = CursorState(sys.st)]_vars

\* C26: in capture mode the text given to the decoder is the opening bracket
\* and then every byte consumed, nothing lost, repeated or padded, whatever
\* the length; on a list or object holding one string the bytes consumed
\* are those through the matching closer, so the text is the document.
C26_CaptureIsExact ==
    [][(res'.kind = "loads" /\ ff.from = sys.objs[ff.id].start)
       => /\ res'.val = <<"text", SubSeq(doc, ff.from, Consumed(sys.st))>>
          /\ doc \in CaptureDocs => Consumed(sys.st) = Len(doc)]_vars

\* a capture of exactly two buffer increments of bytes has been handed to
\* the decoder
C26_Witness ==
    /\ res.kind = "loads"
    /\ doc \in CaptureDocs
    /\ Len(res.val[2]) = 2 * BufferIncrement + 1


====
